---- MODULE Spec2Model ----
(***************************************************************************)
(* Model of the voice server's real-time decision pipeline:                *)
(*   state_machine.py  StateMachine (wake word, command, reply timer)      *)
(*   vad_detector.py   VADDetector (speech segmenter)                      *)
(*   server.py         VoiceServer (audio callback -> VAD -> transcribe    *)
(*                     -> state machine)                                   *)
(* Coroutines run on one asyncio event loop: a step of the model is the    *)
(* code a coroutine runs between two suspension points (awaits).           *)
(***************************************************************************)
EXTENDS Integers, Sequences, FiniteSets, TLC

(***************************************************************************)
(* Bounds of the model.                                                    *)
(***************************************************************************)
\* calls of process_transcription / manual_trigger / stop per behaviour
MaxCalls == 3

\* audio frames fed to the segmenter per behaviour
MaxFrames == 7

\* audio callbacks of the running server per behaviour
MaxAudio == 5

\* reset signals to the classifier up to which reset() is called from outside
MaxResets == 2

\* calls of transcribe per behaviour
MaxTranscribes == 1

\* WebSocket connections accepted per behaviour
MaxConns == 3

\* control messages received from the peers per behaviour
MaxMessages == 2

\* The segmenter's frame counts, scaled down from the values config.py gives
\* (3, 9 and 21 frames of 32 ms, and 937 buffered frames) so that every
\* threshold is reached within MaxFrames frames.
min_speech_frames == 2

passive_silence_frames == 2

active_silence_frames == 3

MAX_AUDIO_BUFFER_FRAMES == 5

(***************************************************************************)
(* Text: a Python str is a sequence of one-character strings.              *)
(***************************************************************************)
UpperAlpha == <<"A","B","C","D","E","F","G","H","I","J","K","L","M",
                "N","O","P","Q","R","S","T","U","V","W","X","Y","Z">>

LowerAlpha == <<"a","b","c","d","e","f","g","h","i","j","k","l","m",
                "n","o","p","q","r","s","t","u","v","w","x","y","z">>

\* str.lower() / re.IGNORECASE folding of one character
LowerChar(c) ==
    IF \E i \in 1..26 : UpperAlpha[i] = c
    THEN LowerAlpha[CHOOSE i \in 1..26 : UpperAlpha[i] = c]
    ELSE c

Lower(s) == [i \in 1..Len(s) |-> LowerChar(s[i])]

\* \s of the regexes and the default str.strip() / str.split() separators
Whitespace == {" ", "\t", "\n"}

\* a joiner class without the hyphen
JoinerChars_NoHyphen == Whitespace \cup {",", ".", "!", "?"}

\* [\s,.\-!?] : what may stand between two words of a wake phrase
JoinerChars == Whitespace \cup {",", ".", "-", "!", "?"}

\* [,.\s!?] : the filler removed in front of the remainder
FillerChars == Whitespace \cup {",", ".", "!", "?"}

\* number of leading characters of s, from position i on, that are in set
RECURSIVE RunLen(_, _, _)
RunLen(s, i, set) ==
    IF i > Len(s) \/ s[i] \notin set THEN 0 ELSE 1 + RunLen(s, i + 1, set)

\* number of trailing characters of s, ending at position i, that are in set
RECURSIVE RunLenBack(_, _, _)
RunLenBack(s, i, set) ==
    IF i < 1 \/ s[i] \notin set THEN 0 ELSE 1 + RunLenBack(s, i - 1, set)

LStrip(s, set) == SubSeq(s, 1 + RunLen(s, 1, set), Len(s))

RStrip(s, set) == SubSeq(s, 1, Len(s) - RunLenBack(s, Len(s), set))

\* str.strip()
Strip(s) == RStrip(LStrip(s, Whitespace), Whitespace)

\* str.split(): the maximal runs of non-whitespace characters, in order
RECURSIVE SplitFrom(_, _)
SplitFrom(s, i) ==
    LET j == i + RunLen(s, i, Whitespace)
        n == RunLen(s, j, {s[k] : k \in 1..Len(s)} \ Whitespace)
    IN  IF j > Len(s) THEN << >>
        ELSE <<SubSeq(s, j, j + n - 1)>> \o SplitFrom(s, j + n)

Split(s) == SplitFrom(s, 1)

(***************************************************************************)
(* config.py                                                               *)
(***************************************************************************)
SAMPLE_RATE == 16000

MAX_RECORDING_DURATION_S == 30

WAKE_WORDS == << <<"h","e","y"," ","f","o","x">> >>

(***************************************************************************)
(* StateMachine: wake phrase matching.                                     *)
(* A compiled pattern is the list of the phrase's lower-cased words; the   *)
(* regex is  w1 [\s,.\-!?]* w2 [\s,.\-!?]* ... wn  with re.IGNORECASE.     *)
(***************************************************************************)
\* the phrases left in the order of the configuration
SortedByLenDesc_Unsorted(ps) == ps

\* sorted(words, key=len, reverse=True): stable insertion, longest first
RECURSIVE SortedByLenDesc(_)
SortedByLenDesc(ps) ==
    IF ps = << >> THEN << >>
    ELSE LET rest == SortedByLenDesc(Tail(ps))
             p    == Head(ps)
             \* stable: p came before the elements of rest, so it goes after
             \* the strictly longer ones and before those of equal length
             k    == IF \E i \in 1..Len(rest) : Len(rest[i]) <= Len(p)
                     THEN CHOOSE i \in 1..Len(rest) :
                              /\ Len(rest[i]) <= Len(p)
                              /\ \A j \in 1..(i - 1) : Len(rest[j]) > Len(p)
                     ELSE Len(rest) + 1
         IN  SubSeq(rest, 1, k - 1) \o <<p>> \o SubSeq(rest, k, Len(rest))

\* _wake_regexes: (phrase, compiled pattern) for each phrase, longest first
WakeRegexes(wake_words) ==
    LET sorted == SortedByLenDesc(wake_words)
    IN  [i \in 1..Len(sorted) |->
            [phrase |-> sorted[i], words |-> Split(Lower(sorted[i]))]]

\* the literal word w matches text t at position pos, ignoring case
WordAt(w, t, pos) ==
    /\ pos + Len(w) - 1 <= Len(t)
    /\ \A k \in 1..Len(w) : LowerChar(t[pos + k - 1]) = LowerChar(w[k])

\* The regex engine's match of words[j..] at pos: the position after the
\* match, or 0 when there is none.  The joiner run is greedy and backtracks.
RECURSIVE MatchFrom(_, _, _, _)
RECURSIVE MatchJoiner(_, _, _, _, _)
MatchFrom(words, j, t, pos) ==
    IF j > Len(words) THEN pos
    ELSE IF ~WordAt(words[j], t, pos) THEN 0
    ELSE IF j = Len(words) THEN pos + Len(words[j])
    ELSE LET base == pos + Len(words[j])
         IN  MatchJoiner(words, j, t, base, RunLen(t, base, JoinerChars))

MatchJoiner(words, j, t, base, k) ==
    LET r == MatchFrom(words, j + 1, t, base + k)
    IN  IF r # 0 THEN r
        ELSE IF k = 0 THEN 0
        ELSE MatchJoiner(words, j, t, base, k - 1)

\* pattern.search(t): the leftmost match, as [start, end) positions
Search(words, t) ==
    LET starts == {i \in 1..(Len(t) + 1) : MatchFrom(words, 1, t, i) # 0}
    IN  IF starts = {} THEN [found |-> FALSE, start |-> 0, end |-> 0]
        ELSE LET s == CHOOSE i \in starts : \A i2 \in starts : i <= i2
             IN  [found |-> TRUE, start |-> s, end |-> MatchFrom(words, 1, t, s)]

RECURSIVE ExtractFrom(_, _, _)
ExtractFrom(regexes, i, text_stripped) ==
    IF i > Len(regexes)
    THEN [found |-> FALSE, remainder |-> << >>, phrase |-> << >>]
    ELSE LET m == Search(regexes[i].words, text_stripped)
         IN  IF m.found
             THEN LET after  == Strip(SubSeq(text_stripped, m.end,
                                             Len(text_stripped)))
                      after2 == Strip(LStrip(after, FillerChars))
                  IN  [found |-> TRUE, remainder |-> after2,
                       phrase |-> regexes[i].phrase]
             ELSE ExtractFrom(regexes, i + 1, text_stripped)

extract_wake_word(regexes, text) == ExtractFrom(regexes, 1, Strip(text))

\* an extract_wake_word call about to be made on text by a state machine
\* whose WAKE_WORDS are wake_words
WakeCall(wake_words, text) ==
    [wake_words |-> wake_words, text |-> text, pc |-> "call",
     found |-> FALSE, remainder |-> << >>, phrase |-> << >>]

(***************************************************************************)
(* Inputs of the state machine: recognized texts.                          *)
(***************************************************************************)
T_Empty   == << >>
T_Cmd     == <<"g","o">>
T_Wake    == <<"h","e","y"," ","f","o","x">>
T_WakeCmd == <<"H","e","y",","," ","f","o","x","."," ","g","o">>

Texts == {T_Empty, T_Cmd, T_Wake, T_WakeCmd}

(***************************************************************************)
(* State.                                                                  *)
(***************************************************************************)
VARIABLES
    state,                \* StateMachine.state: "passive" | "active"
    active_timeout_task,  \* StateMachine.active_timeout_task: timer id, 0 = None
    timers,               \* the _active_timeout tasks created so far, by id:
                          \*   "sleeping" | "on_error" | "done" | "cancelled"
    tasks,                \* the calls made so far, by id: kind, text,
                          \*   remainder, position (pc), timer created
    events,               \* every callback invocation so far, in order
    session,              \* number of entries into Active so far
    speech_started,       \* VADDetector.speech_started
    speech_frames,        \* VADDetector.speech_frames: the buffered frames
    silence_frames,       \* VADDetector.silence_frames: the silence run
    min_silence_frames,   \* VADDetector.min_silence_frames: the threshold
    reset_states_calls,   \* number of model.reset_states() calls so far
    utterances,           \* the utterances returned so far, in order
    nframes,              \* number of frames passed to process_chunk so far
    chunks,               \* the process_audio_chunk coroutines scheduled so
                          \*   far, in order: frame, position (pc), utterance,
                          \*   and its process_transcription call in tasks
    trs,                  \* the transcribe calls made so far, by id
    websocket,            \* VoiceServer.websocket: connection id, 0 = None
    conns,                \* the connections accepted so far, by id: the
                          \*   position of their websocket_handler, whether
                          \*   they are closed, what they were sent
    wake                  \* an extract_wake_word call of a state machine
                          \*   built with wake.wake_words: text and result

smVars == <<state, active_timeout_task, timers, tasks, events, session>>

vadVars == <<speech_started, speech_frames, silence_frames,
             min_silence_frames, reset_states_calls, utterances, nframes>>

trVars == <<trs>>

wsVars == <<websocket, conns>>

wkVars == <<wake>>

srvVars == <<chunks, trs, websocket, conns, wake>>

vars == <<state, active_timeout_task, timers, tasks, events, session,
          speech_started, speech_frames, silence_frames,
          min_silence_frames, reset_states_calls, utterances, nframes,
          chunks, trs, websocket, conns, wake>>

\* a timer task that was created and has neither finished nor been cancelled
Live(tm, t) == tm[t] \in {"sleeping", "on_error"}

LiveTimers == {t \in 1..Len(timers) : Live(timers, t)}

\* The machine's fields as one value m = [state, att, timers].
Machine == [state |-> state, att |-> active_timeout_task, timers |-> timers]

\* an invocation of a callback: its type, its argument, the Active session it
\* falls in (0 when the state is Passive) and the task that made it
Event(type, text, st, sess, by) ==
    [type |-> type, text |-> text,
     sess |-> IF st = "active" THEN sess ELSE 0, by |-> by]

\* _cancel_timeout that forgets the task without cancelling it
cancel_timeout_Forgets(m) == [m EXCEPT !.att = 0]

\* _cancel_timeout
cancel_timeout(m) ==
    [m EXCEPT
        !.timers = IF m.att # 0 /\ Live(m.timers, m.att)
                   THEN [m.timers EXCEPT ![m.att] = "cancelled"]
                   ELSE m.timers,
        !.att = 0]

\* transition_to_passive (it awaits nothing: one atomic step)
transition_to_passive(m) ==
    IF m.state = "passive" THEN m
    ELSE cancel_timeout([m EXCEPT !.state = "passive"])

SetMachine(m) ==
    /\ state' = m.state
    /\ active_timeout_task' = m.att
    /\ timers' = m.timers

\* number of live timer tasks in machine value m
LiveCount(m) == Cardinality({t \in 1..Len(m.timers) : Live(m.timers, t)})

\* The record of a call.  kind, text, rem (the remainder after the wake
\* phrase), pc and timer (the timer task the call created, 0 = none) are the
\* coroutine's locals; the other fields record, for the properties, what the
\* machine was when the call started (from, pending: the sleeping timer
\* active_timeout_task named, sess: the number of the Active session the call
\* started in, entered: the call made the Passive -> Active transition) and
\* when it returned (endState, endLive: the number of live timers).
NewTask(kind, text, rem, pc, m0, sess, entered) ==
    [kind |-> kind, text |-> text, rem |-> rem, pc |-> pc, timer |-> 0,
     from |-> m0.state,
     pending |-> IF m0.att # 0 /\ m0.timers[m0.att] = "sleeping"
                 THEN m0.att ELSE 0,
     sess |-> sess, entered |-> entered,
     endState |-> "none", endLive |-> -1]

\* the call returns, leaving the machine as m
Finish(task, m) ==
    [task EXCEPT !.pc = "done", !.endState = m.state, !.endLive = LiveCount(m)]

Caller(i) == <<"call", i>>

TimerTask(t) == <<"timer", t>>

\* _handle_command up to its await of on_command
HandleCommandBegin(m, text, sess, by) ==
    /\ SetMachine(cancel_timeout(m))
    /\ events' = Append(events, Event("command", text, m.state, sess, by))

\* transition_to_active from Passive up to its await of on_wake
EnterActive(by) ==
    /\ state' = "active"
    /\ session' = session + 1
    /\ events' = Append(events, Event("wake", << >>, "active", session + 1, by))
    /\ UNCHANGED <<active_timeout_task, timers>>

Init ==
    /\ state = "passive"
    /\ active_timeout_task = 0
    /\ timers = << >>
    /\ tasks = << >>
    /\ events = << >>
    /\ session = 0
    /\ speech_started = FALSE
    /\ speech_frames = << >>
    /\ silence_frames = 0
    /\ min_silence_frames = passive_silence_frames
    /\ reset_states_calls = 0
    /\ utterances = << >>
    /\ nframes = 0
    /\ chunks = << >>
    /\ trs = << >>
    /\ websocket = 0
    /\ conns = << >>
    /\ wake = WakeCall(WAKE_WORDS, << >>)

(***************************************************************************)
(* StateMachine operations.  A call runs up to its first await in the step *)
(* that starts it.                                                         *)
(***************************************************************************)
\* process_transcription(text), up to its first await
ProcessTranscriptionBegin(text) ==
    LET i  == Len(tasks) + 1
        r  == extract_wake_word(WakeRegexes(WAKE_WORDS), text)
        m0 == Machine
    IN
    /\ Len(tasks) < MaxCalls
    /\ IF text = << >>
       THEN /\ tasks' = Append(tasks, Finish(
                    NewTask("pt", text, << >>, "done", m0, session, FALSE), m0))
            /\ UNCHANGED <<state, active_timeout_task, timers, events, session>>
       ELSE IF state = "passive"
       THEN IF r.found
            THEN /\ EnterActive(Caller(i))
                 /\ tasks' = Append(tasks,
                        NewTask("pt", text, r.remainder, "on_wake", m0,
                                session + 1, TRUE))
            ELSE /\ tasks' = Append(tasks, Finish(
                        NewTask("pt", text, << >>, "done", m0, session, FALSE), m0))
                 /\ UNCHANGED <<state, active_timeout_task, timers, events, session>>
       ELSE /\ HandleCommandBegin(m0, text, session, Caller(i))
            /\ tasks' = Append(tasks,
                   NewTask("pt", text, << >>, "on_command", m0, session, FALSE))
            /\ UNCHANGED session

ProcessTranscription == \E text \in Texts : ProcessTranscriptionBegin(text)

\* manual_trigger, up to its first await
ManualTrigger ==
    LET i  == Len(tasks) + 1
        m0 == Machine
    IN
    /\ Len(tasks) < MaxCalls
    /\ IF state = "active"
       THEN /\ tasks' = Append(tasks, Finish(
                    NewTask("trigger", << >>, << >>, "done", m0, session, FALSE), m0))
            /\ UNCHANGED <<state, active_timeout_task, timers, events, session>>
       ELSE /\ EnterActive(Caller(i))
            /\ tasks' = Append(tasks,
                   NewTask("trigger", << >>, << >>, "on_wake", m0,
                           session + 1, TRUE))

\* stop: transition_to_passive, no await
Stop ==
    LET m0 == Machine
        m1 == transition_to_passive(m0)
    IN
    /\ Len(tasks) < MaxCalls
    /\ SetMachine(m1)
    /\ tasks' = Append(tasks, Finish(
           NewTask("stop", << >>, << >>, "done", m0, session, FALSE), m1))
    /\ UNCHANGED <<events, session>>

\* transition_to_active: on_wake returns, on_listening is called
OnWakeReturns(i) ==
    /\ tasks[i].pc = "on_wake"
    /\ events' = Append(events, Event("listening", << >>, state, session, Caller(i)))
    /\ tasks' = [tasks EXCEPT ![i].pc = "on_listening"]
    /\ UNCHANGED <<state, active_timeout_task, timers, session>>

\* transition_to_active: on_listening returns, the timer task is created;
\* process_transcription goes on to the inline command when there is one
OnListeningReturns(i) ==
    LET t  == Len(timers) + 1
        m1 == [Machine EXCEPT !.timers = Append(timers, "sleeping"), !.att = t]
    IN
    /\ tasks[i].pc = "on_listening"
    /\ IF tasks[i].rem # << >>
       THEN /\ HandleCommandBegin(m1, tasks[i].rem, session, Caller(i))
            /\ tasks' = [tasks EXCEPT ![i].pc = "on_command", ![i].timer = t]
       ELSE /\ SetMachine(m1)
            /\ tasks' = [tasks EXCEPT
                            ![i] = Finish([tasks[i] EXCEPT !.timer = t], m1)]
            /\ UNCHANGED events
    /\ UNCHANGED session

\* _handle_command: on_command returns, transition_to_passive
OnCommandReturns(i) ==
    LET m1 == transition_to_passive(Machine) IN
    /\ tasks[i].pc = "on_command"
    /\ SetMachine(m1)
    /\ tasks' = [tasks EXCEPT ![i] = Finish(tasks[i], m1)]
    /\ UNCHANGED <<events, session>>

\* _active_timeout: the sleep ends, on_error is called
TimerFires(t) ==
    /\ timers[t] = "sleeping"
    /\ timers' = [timers EXCEPT ![t] = "on_error"]
    /\ events' = Append(events, Event("error", << >>, state, session, TimerTask(t)))
    /\ UNCHANGED <<state, active_timeout_task, tasks, session>>

\* _active_timeout: on_error returns, transition_to_passive, the task ends
OnErrorReturns(t) ==
    LET m1 == transition_to_passive(Machine) IN
    /\ timers[t] = "on_error"
    /\ SetMachine([m1 EXCEPT !.timers[t] = "done"])
    /\ UNCHANGED <<tasks, events, session>>

\* The state machine under its callers: any call may start while others are
\* suspended at their awaits.
Next ==
    \/ ProcessTranscription /\ UNCHANGED <<vadVars, srvVars>>
    \/ ManualTrigger /\ UNCHANGED <<vadVars, srvVars>>
    \/ Stop /\ UNCHANGED <<vadVars, srvVars>>
    \/ \E i \in 1..Len(tasks) : OnWakeReturns(i) /\ UNCHANGED <<vadVars, srvVars>>
    \/ \E i \in 1..Len(tasks) : OnListeningReturns(i) /\ UNCHANGED <<vadVars, srvVars>>
    \/ \E i \in 1..Len(tasks) : OnCommandReturns(i) /\ UNCHANGED <<vadVars, srvVars>>
    \/ \E t \in 1..Len(timers) : TimerFires(t) /\ UNCHANGED <<vadVars, srvVars>>
    \/ \E t \in 1..Len(timers) : OnErrorReturns(t) /\ UNCHANGED <<vadVars, srvVars>>

Spec == Init /\ [][Next]_vars

(***************************************************************************)
(* extract_wake_word as a function of the configured phrases and the text. *)
(***************************************************************************)
P_Fox == <<"f","o","x">>

P_FoxPro == <<"f","o","x"," ","p","r","o">>

P_Pro == <<"p","r","o">>

\* "hey fox pro now"
X_HeyFoxProNow ==
    <<"h","e","y"," ","f","o","x"," ","p","r","o"," ","n","o","w">>

\* "hey, FOX please"
X_HeyFoxPlease ==
    <<"h","e","y",","," ","F","O","X"," ","p","l","e","a","s","e">>

\* "hey fox"
X_HeyFox ==
    <<"h","e","y"," ","f","o","x">>

\* "random speech"
X_RandomSpeech ==
    <<"r","a","n","d","o","m"," ","s","p","e","e","c","h">>

\* "hey fox - go"
X_HeyFoxDashGo ==
    <<"h","e","y"," ","f","o","x"," ","-"," ","g","o">>

\* "hey; fox go"
X_HeySemiFoxGo ==
    <<"h","e","y",";"," ","f","o","x"," ","g","o">>

\* "fox now fox pro go"
X_FoxNowFoxProGo ==
    <<"f","o","x"," ","n","o","w"," ","f","o","x"," ","p","r","o"," ","g","o">>

\* "  HEY .-  Fox ?! go "
X_Padded ==
    <<" "," ","H","E","Y"," ",".","-"," "," ","F","o","x"," ","?","!"," ","g","o"," ">>

\* "heyfox go"
X_HeyfoxGo ==
    <<"h","e","y","f","o","x"," ","g","o">>

\* "pro fox now"
X_ProFoxNow ==
    <<"p","r","o"," ","f","o","x"," ","n","o","w">>

\* "Fox!Pro"
X_FoxPro ==
    <<"F","o","x","!","P","r","o">>

\* "hey"
X_Hey ==
    <<"h","e","y">>

\* "fox hey fo"
X_FoxHey ==
    <<"f","o","x"," ","h","e","y"," ","f","o">>

\* the WAKE_WORDS lists the state machine is built with
WakeConfigs ==
    {WAKE_WORDS, <<P_Fox, P_FoxPro>>, <<P_FoxPro, P_Fox>>,
     <<P_Pro, P_Fox>>, <<P_Fox, P_FoxPro, T_Wake>>}

\* the texts extract_wake_word is called on
WakeTexts ==
    {X_HeyFoxProNow, X_HeyFoxPlease, X_HeyFox, X_RandomSpeech,
     X_HeyFoxDashGo, X_HeySemiFoxGo, X_FoxNowFoxProGo, X_Padded,
     X_HeyfoxGo, X_ProFoxNow, X_FoxPro, X_Hey,
     X_FoxHey}

\* a state machine built with any of the phrase lists, about to call
\* extract_wake_word on any of the texts
InitWake ==
    /\ state = "passive"
    /\ active_timeout_task = 0
    /\ timers = << >>
    /\ tasks = << >>
    /\ events = << >>
    /\ session = 0
    /\ speech_started = FALSE
    /\ speech_frames = << >>
    /\ silence_frames = 0
    /\ min_silence_frames = passive_silence_frames
    /\ reset_states_calls = 0
    /\ utterances = << >>
    /\ nframes = 0
    /\ chunks = << >>
    /\ trs = << >>
    /\ websocket = 0
    /\ conns = << >>
    /\ wake \in {WakeCall(w, t) : w \in WakeConfigs, t \in WakeTexts}

\* the call of extract_wake_word
ExtractWakeWord ==
    LET r == extract_wake_word(WakeRegexes(wake.wake_words), wake.text) IN
    /\ wake.pc = "call"
    /\ wake' = [wake EXCEPT !.pc = "done", !.found = r.found,
                            !.remainder = r.remainder, !.phrase = r.phrase]
    /\ UNCHANGED <<smVars, vadVars, chunks, trVars, wsVars>>

NextWake == ExtractWakeWord

SpecWake == InitWake /\ [][NextWake]_vars

\* phrase p, taken alone, matches somewhere in text
PhraseMatches(p, text) == Search(Split(Lower(p)), Strip(text)).found

\* what follows the leftmost match of phrase p in text, cleaned as
\* extract_wake_word cleans it
RemainderAfter(p, text) ==
    LET t == Strip(text)
        m == Search(Split(Lower(p)), t)
    IN  Strip(LStrip(Strip(SubSeq(t, m.end, Len(t))), FillerChars))

\* C23: the configured phrases are tried longest first: when some phrase
\* matches in the text, the phrase reported is a matching one that no
\* matching phrase exceeds in length, and the remainder is the text after
\* its match, also when a shorter phrase matches inside it or earlier; with
\* ["fox", "fox pro"] on "hey fox pro now": "fox pro" and "now".
C23_LongestPhraseFirst ==
    wake.pc = "done" =>
        LET ws   == wake.wake_words
            hits == {i \in 1..Len(ws) : PhraseMatches(ws[i], wake.text)}
        IN  /\ wake.found <=> hits # {}
            /\ hits # {} =>
                  /\ \E i \in hits : wake.phrase = ws[i]
                  /\ \A i \in hits : Len(ws[i]) <= Len(wake.phrase)
                  /\ wake.remainder = RemainderAfter(wake.phrase, wake.text)
            /\ (ws = <<P_Fox, P_FoxPro>> /\ wake.text = X_HeyFoxProNow) =>
                  /\ wake.phrase = P_FoxPro
                  /\ wake.remainder = <<"n", "o", "w">>

\* the example: "fox" is configured before "fox pro" and matches earlier
C23_Witness ==
    /\ wake.pc = "done"
    /\ wake.wake_words = <<P_Fox, P_FoxPro>>
    /\ wake.text = X_FoxNowFoxProGo
    /\ wake.phrase = P_FoxPro
    /\ wake.remainder = <<"g", "o">>

\* punctuation characters of the texts
Punctuation == {",", ".", "-", "!", "?", ";", ":"}

Blank == {" ", "\t", "\n"}

\* the two words of "hey fox" stand in t from position i on, in any letter
\* case, with a run of characters of gap between them
GapMatch(t, i, gap) ==
    LET w1 == <<"h", "e", "y">>
        w2 == <<"f", "o", "x">>
        j  == i + 3 + RunLen(t, i + 3, gap)
    IN  /\ j + 2 <= Len(t)
        /\ \A k \in 1..3 : t[i + k - 1] \in {w1[k], UpperAlpha[CHOOSE a \in 1..26 : LowerAlpha[a] = w1[k]]}
        /\ \A k \in 1..3 : t[j + k - 1] \in {w2[k], UpperAlpha[CHOOSE a \in 1..26 : LowerAlpha[a] = w2[k]]}

\* what extract_wake_word is to return for "hey fox" on text when runs of
\* gap are allowed between the words and a leading run of lead is removed
\* from the remainder
ExpectedHeyFox(text, gap, lead) ==
    LET t      == Strip(text)
        starts == {i \in 1..Len(t) : i + 2 <= Len(t) /\ GapMatch(t, i, gap)}
    IN  IF starts = {} THEN [found |-> FALSE, remainder |-> << >>]
        ELSE LET i == CHOOSE a \in starts : \A b \in starts : a <= b
                 e == i + 3 + RunLen(t, i + 3, gap) + 3
             IN  [found |-> TRUE,
                  remainder |-> Strip(LStrip(SubSeq(t, e, Len(t)), lead))]

WakeResult == [found |-> wake.found, remainder |-> wake.remainder]

\* the three cases the specification gives for "hey fox"
HeyFoxExamples ==
    /\ wake.text = X_HeyFoxPlease =>
           WakeResult = [found |-> TRUE,
                         remainder |-> <<"p", "l", "e", "a", "s", "e">>]
    /\ wake.text = X_HeyFox => WakeResult = [found |-> TRUE, remainder |-> << >>]
    /\ wake.text = X_RandomSpeech =>
           WakeResult = [found |-> FALSE, remainder |-> << >>]

\* C24 as stated: "hey fox" is matched in any letter case with any run of
\* punctuation or whitespace between its words, and the remainder is the
\* text after the match without its leading punctuation and whitespace.
C24_AnyPunctuationTolerated ==
    (wake.pc = "done" /\ wake.wake_words = WAKE_WORDS) =>
        /\ WakeResult = ExpectedHeyFox(wake.text, Punctuation \cup Blank,
                                       Punctuation \cup Blank)
        /\ HeyFoxExamples

\* C24 as amended: "hey fox" is matched in any letter case with any run of
\* whitespace and of the characters , . - ! ? between its words, and the
\* remainder is the text after the match without its leading whitespace and
\* , . ! ? characters (a leading hyphen or other punctuation stays).
C24_JoinersToleratedFillersRemoved ==
    (wake.pc = "done" /\ wake.wake_words = WAKE_WORDS) =>
        /\ WakeResult = ExpectedHeyFox(wake.text,
                                       {",", ".", "-", "!", "?"} \cup Blank,
                                       {",", ".", "!", "?"} \cup Blank)
        /\ HeyFoxExamples

\* "  HEY .-  Fox ?! go " was matched and "go" returned
C24_Witness ==
    /\ wake.pc = "done"
    /\ wake.wake_words = WAKE_WORDS
    /\ wake.text = X_Padded
    /\ WakeResult = [found |-> TRUE, remainder |-> <<"g", "o">>]

(***************************************************************************)
(* Properties of the state machine.                                        *)
(***************************************************************************)
\* the events task `by` has emitted, in order
EventsBy(by) == SelectSeq(events, LAMBDA e : e.by = by)

TypesBy(by) == [k \in 1..Len(EventsBy(by)) |-> EventsBy(by)[k].type]

HasEvent(type, s) == \E k \in 1..Len(events) : events[k].type = type /\ events[k].sess = s

\* C1: in one Active session (from an entry into Active to the next return to
\* Passive) a Command event and a 'no command received' Error event are never
\* both emitted.
C1_NotBothCommandAndError ==
    \A s \in 1..session : ~(HasEvent("command", s) /\ HasEvent("error", s))

\* C2: at most one reply-timer task is live at any time.
C2_AtMostOneLiveTimer == Cardinality(LiveTimers) <= 1

Done(i) == tasks[i].pc = "done"

\* the calls of process_transcription with a non-empty text made while the
\* machine was Active and its timer was pending (sleeping)
CommandCalls ==
    {i \in 1..Len(tasks) :
        /\ tasks[i].kind = "pt" /\ tasks[i].text # << >>
        /\ tasks[i].from = "active" /\ tasks[i].pending # 0}

\* C3: a non-empty text handled while Active with a pending timer emits
\* exactly [Command{text}] with the text unchanged, the call returns with the
\* state Passive, and the timer that was pending is cancelled and never emits
\* an Error event.
C3_CommandCancelsPendingTimer ==
    \A i \in CommandCalls :
        /\ EventsBy(Caller(i)) =
               <<[type |-> "command", text |-> tasks[i].text,
                  sess |-> tasks[i].sess, by |-> Caller(i)]>>
        /\ Done(i) => tasks[i].endState = "passive"
        /\ timers[tasks[i].pending] = "cancelled"
        /\ EventsBy(TimerTask(tasks[i].pending)) = << >>

\* a command call has returned, and every timer has ended
C3_Witness ==
    \E i \in CommandCalls : Done(i) /\ state = "passive" /\ LiveTimers = {}

\* the calls that are a manual trigger or a wake-only text, made in Passive
WakeOnlyCalls ==
    {i \in 1..Len(tasks) :
        /\ tasks[i].from = "passive" /\ tasks[i].entered
        /\ tasks[i].rem = << >>}

\* C4: from Passive, a wake-only text or a manual trigger emits exactly
\* [Wake, Listening] (no Command) and returns with the state Active and
\* exactly one reply timer scheduled.
C4_WakeOnlyLeavesActiveWithOneTimer ==
    \A i \in WakeOnlyCalls :
        Done(i) =>
            /\ TypesBy(Caller(i)) = <<"wake", "listening">>
            /\ tasks[i].endState = "active"
            /\ tasks[i].endLive = 1

\* the call that made the latest entry into Active
LastEntry ==
    IF \E i \in 1..Len(tasks) : tasks[i].entered
    THEN CHOOSE i \in 1..Len(tasks) :
             tasks[i].entered /\ \A j \in (i + 1)..Len(tasks) : ~tasks[j].entered
    ELSE 0

\* the latest entry into Active was a manual trigger or a wake-only text, and
\* no text and no stop has arrived since
QuietSinceEntry ==
    /\ LastEntry # 0
    /\ tasks[LastEntry].rem = << >>
    /\ \A j \in (LastEntry + 1)..Len(tasks) : tasks[j].kind = "trigger"

\* every call has returned and every timer has ended
Quiescent == (\A i \in 1..Len(tasks) : Done(i)) /\ LiveTimers = {}

\* the events emitted from the latest entry into Active on, but for the
\* Wake and Listening of the entry itself
EventsSinceEntry ==
    LET first == CHOOSE k \in 1..Len(events) :
                     events[k].by = Caller(LastEntry) /\ events[k].type = "wake"
    IN  SelectSeq(SubSeq(events, first, Len(events)),
                  LAMBDA e : e.by # Caller(LastEntry))

\* C5: when the machine has entered Active and no text and no stop arrives
\* afterwards, then once the timer has fired and everything has returned,
\* exactly one Error event was emitted and nothing else, the state is Passive
\* and no timer is outstanding.
C5_TimeoutEmitsExactlyOneError ==
    (QuietSinceEntry /\ Quiescent) =>
        /\ Len(EventsSinceEntry) = 1
        /\ EventsSinceEntry[1].type = "error"
        /\ state = "passive"

\* the calls of process_transcription in Passive with a wake phrase and a
\* remainder
InlineCalls ==
    {i \in 1..Len(tasks) :
        /\ tasks[i].from = "passive" /\ tasks[i].entered
        /\ tasks[i].rem # << >>}

\* C6: from Passive, a text with a wake phrase and a non-empty remainder
\* emits exactly [Wake, Listening, Command{remainder}] in that call, which
\* returns with the state Passive and no timer outstanding; the timer the
\* call started never emits an Error event.
C6_InlineCommand ==
    \A i \in InlineCalls :
        /\ tasks[i].timer # 0 => EventsBy(TimerTask(tasks[i].timer)) = << >>
        /\ Done(i) =>
            /\ TypesBy(Caller(i)) = <<"wake", "listening", "command">>
            /\ EventsBy(Caller(i))[3].text = tasks[i].rem
            /\ tasks[i].endState = "passive"
            /\ tasks[i].endLive = 0

StopCalls == {i \in 1..Len(tasks) : tasks[i].kind = "stop"}

\* C7: a stop emits no event and returns with the state Passive and no timer
\* outstanding; the timer of the session it stopped emits no Error event
\* later (it is not live once the stop has returned).
C7_StopLeavesNoTimer ==
    \A j \in StopCalls :
        /\ EventsBy(Caller(j)) = << >>
        /\ tasks[j].endState = "passive"
        /\ tasks[j].endLive = 0
        /\ \A i \in 1..(j - 1) :
               (tasks[i].entered /\ tasks[i].sess = tasks[j].sess
                /\ tasks[j].from = "active" /\ tasks[i].timer # 0)
               => ~Live(timers, tasks[i].timer)

\* C28: between two consecutive Wake events, and after the last one, at most
\* one Command event is emitted: of any two Command events the later one
\* follows a Wake event emitted after the earlier one.
C28_OneCommandPerWake ==
    \A a, b \in 1..Len(events) :
        (a < b /\ events[a].type = "command" /\ events[b].type = "command")
        => \E k \in (a + 1)..(b - 1) : events[k].type = "wake"

\* C29: a reply timer is outstanding only while the state is Active, and an
\* Error event is emitted only while the state is Active.
C29_TimerAndErrorOnlyWhileActive ==
    /\ LiveTimers # {} => state = "active"
    /\ \A k \in 1..Len(events) : events[k].type = "error" => events[k].sess # 0

(***************************************************************************)
(* VADDetector: the speech segmenter.  A frame is [id, speech]: its number *)
(* in arrival order and what the Silero model says of it (speech_prob >    *)
(* VAD_THRESHOLD), which is an input here.                                 *)
(***************************************************************************)
Vad == [speech_started |-> speech_started, speech_frames |-> speech_frames,
        silence_frames |-> silence_frames,
        min_silence_frames |-> min_silence_frames,
        reset_states_calls |-> reset_states_calls]

SetVad(v) ==
    /\ speech_started' = v.speech_started
    /\ speech_frames' = v.speech_frames
    /\ silence_frames' = v.silence_frames
    /\ min_silence_frames' = v.min_silence_frames
    /\ reset_states_calls' = v.reset_states_calls

\* reset that keeps the buffered frames
vad_reset_KeepsBuffer(v) ==
    [v EXCEPT !.speech_started = FALSE, !.silence_frames = 0,
              !.reset_states_calls = v.reset_states_calls + 1]

\* reset that does not signal the classifier
vad_reset_Silent(v) ==
    [v EXCEPT !.speech_started = FALSE, !.speech_frames = << >>,
              !.silence_frames = 0]

\* reset
vad_reset(v) ==
    [v EXCEPT !.speech_started = FALSE, !.speech_frames = << >>,
              !.silence_frames = 0,
              !.reset_states_calls = v.reset_states_calls + 1]

\* set_mode that also restarts the silence run
set_mode_Restarts(v, mode) ==
    IF mode = "passive"
    THEN [v EXCEPT !.min_silence_frames = passive_silence_frames,
                   !.silence_frames = 0]
    ELSE IF mode = "active"
    THEN [v EXCEPT !.min_silence_frames = active_silence_frames,
                   !.silence_frames = 0]
    ELSE v

\* set_mode; any other mode raises ValueError and changes nothing
set_mode(v, mode) ==
    IF mode = "passive"
    THEN [v EXCEPT !.min_silence_frames = passive_silence_frames]
    ELSE IF mode = "active"
    THEN [v EXCEPT !.min_silence_frames = active_silence_frames]
    ELSE v

\* speech branch that confirms speech on the first buffered frame
SpeechConfirmed_FirstFrame(v) ==
    ~v.speech_started /\ Len(v.speech_frames) >= 1

\* speech branch: has the buffered run reached the minimum speech length
SpeechConfirmed(v) ==
    ~v.speech_started /\ Len(v.speech_frames) >= min_speech_frames

\* speech branch that forces the end only above the limit
BufferLimitReached_Late(v) ==
    Len(v.speech_frames) > MAX_AUDIO_BUFFER_FRAMES

\* speech branch: has the buffer reached MAX_AUDIO_BUFFER_FRAMES
BufferLimitReached(v) ==
    Len(v.speech_frames) >= MAX_AUDIO_BUFFER_FRAMES

\* silence branch that ends the utterance one frame late
SilenceEnds_Late(v) == v.silence_frames > v.min_silence_frames

\* silence branch: has the silence run reached the threshold
SilenceEnds(v) == v.silence_frames >= v.min_silence_frames

\* pre-speech silence branch that discards any buffered frame
PreSpeechDiscard_Any(v) == Len(v.speech_frames) > 0

\* pre-speech silence branch: is the buffer longer than the lookback kept
PreSpeechDiscard(v) == Len(v.speech_frames) > min_speech_frames

\* what a call returns: the segmenter after it, is_speech, the utterance
\* (<< >> for None) and the return statement taken
VadResult(v, is_speech, utterance, via) ==
    [vad |-> v, is_speech |-> is_speech, utterance |-> utterance, via |-> via]

\* process_chunk
process_chunk(v, frame) ==
    IF frame.speech
    THEN LET v1 == [v EXCEPT !.speech_frames = Append(v.speech_frames, frame),
                             !.silence_frames = 0]
             v2 == IF SpeechConfirmed(v1)
                   THEN [v1 EXCEPT !.speech_started = TRUE] ELSE v1
         IN  IF BufferLimitReached(v2)
             THEN VadResult(vad_reset(v2), TRUE, v2.speech_frames, "cap")
             ELSE VadResult(v2, TRUE, << >>, "none")
    ELSE IF v.speech_started
    THEN LET v1 == [v EXCEPT !.silence_frames = v.silence_frames + 1,
                             !.speech_frames = Append(v.speech_frames, frame)]
         IN  IF SilenceEnds(v1)
             THEN VadResult(vad_reset(v1), FALSE, v1.speech_frames, "silence")
             ELSE VadResult(v1, FALSE, << >>, "none")
    ELSE IF PreSpeechDiscard(v)
    THEN VadResult([v EXCEPT !.speech_frames = << >>], FALSE, << >>, "none")
    ELSE VadResult(v, FALSE, << >>, "none")

\* force_end_utterance
force_end_utterance(v) ==
    IF Len(v.speech_frames) > 0
    THEN VadResult(vad_reset(v), FALSE, v.speech_frames, "force")
    ELSE VadResult(v, FALSE, << >>, "none")

\* the log of returned utterances after result r
Returned(r) ==
    IF r.utterance = << >> THEN utterances
    ELSE Append(utterances, [frames |-> r.utterance, via |-> r.via])

\* a frame arrives and is classified: process_chunk
VadFrame(speech) ==
    LET r == process_chunk(Vad, [id |-> nframes + 1, speech |-> speech]) IN
    /\ nframes < MaxFrames
    /\ nframes' = nframes + 1
    /\ SetVad(r.vad)
    /\ utterances' = Returned(r)

VadSetMode(mode) ==
    /\ SetVad(set_mode(Vad, mode))
    /\ UNCHANGED <<utterances, nframes>>

VadForceEnd ==
    LET r == force_end_utterance(Vad) IN
    /\ SetVad(r.vad)
    /\ utterances' = Returned(r)
    /\ UNCHANGED nframes

\* reset called from outside
VadReset ==
    /\ reset_states_calls < MaxResets
    /\ SetVad(vad_reset(Vad))
    /\ UNCHANGED <<utterances, nframes>>

\* The segmenter alone, under every sequence of frames, mode switches,
\* forced ends and resets.
NextVAD ==
    \/ \E speech \in BOOLEAN : VadFrame(speech) /\ UNCHANGED <<smVars, srvVars>>
    \/ VadReset /\ UNCHANGED <<smVars, srvVars>>
    \/ \E mode \in {"passive", "active"} : VadSetMode(mode) /\ UNCHANGED <<smVars, srvVars>>
    \/ VadForceEnd /\ UNCHANGED <<smVars, srvVars>>

SpecVAD == Init /\ [][NextVAD]_vars

SpeechCount(fs) == Cardinality({k \in 1..Len(fs) : fs[k].speech})

\* C10: an utterance process_chunk returns at the end of a silence run holds
\* at least min_speech_frames speech frames; one with fewer comes from
\* force_end_utterance or from the buffer limit.
C10_SilenceEndHasMinSpeech ==
    \A k \in 1..Len(utterances) :
        /\ utterances[k].via = "silence" =>
               SpeechCount(utterances[k].frames) >= min_speech_frames
        /\ SpeechCount(utterances[k].frames) < min_speech_frames =>
               utterances[k].via \in {"force", "cap"}

\* both cases occur: a silence-ended utterance, and a shorter forced one
C10_Witness ==
    /\ \E k \in 1..Len(utterances) : utterances[k].via = "silence"
    /\ \E k \in 1..Len(utterances) :
           /\ utterances[k].via = "force"
           /\ SpeechCount(utterances[k].frames) < min_speech_frames

AllSpeech(fs) == \A k \in 1..Len(fs) : fs[k].speech

LastId(fs) == fs[Len(fs)].id

\* the segmenter is as reset() leaves it
IsReset ==
    /\ speech_frames = << >>
    /\ ~speech_started
    /\ silence_frames = 0

\* C11: from a reset segmenter fed only speech frames, the utterance is
\* returned exactly on frame number MAX_AUDIO_BUFFER_FRAMES: a buffered run
\* of speech never reaches the limit unreturned (not later), an utterance of
\* speech frames only that process_chunk returns is the one of the limit and
\* holds exactly MAX_AUDIO_BUFFER_FRAMES frames (not earlier), no frame ends
\* two utterances, and the segmenter is reset right after.
C11_SpeechOnlyEmitsAtCap ==
    /\ AllSpeech(speech_frames) => Len(speech_frames) < MAX_AUDIO_BUFFER_FRAMES
    /\ \A k \in 1..Len(utterances) :
           (AllSpeech(utterances[k].frames) /\ utterances[k].via # "force")
           => /\ utterances[k].via = "cap"
              /\ Len(utterances[k].frames) = MAX_AUDIO_BUFFER_FRAMES
    /\ \A j, k \in 1..Len(utterances) :
           (j # k /\ utterances[j].via # "force" /\ utterances[k].via # "force")
           => LastId(utterances[j].frames) # LastId(utterances[k].frames)
    /\ (/\ utterances # << >>
        /\ utterances[Len(utterances)].via = "cap"
        /\ LastId(utterances[Len(utterances)].frames) = nframes) => IsReset

\* frames 1..MAX_AUDIO_BUFFER_FRAMES were all speech and nothing else was
\* fed: the first utterance is exactly those frames
C11_Witness ==
    /\ nframes = MAX_AUDIO_BUFFER_FRAMES
    /\ Len(utterances) = 1
    /\ utterances[1].via = "cap"
    /\ AllSpeech(utterances[1].frames)
    /\ Len(utterances[1].frames) = MAX_AUDIO_BUFFER_FRAMES
    /\ \A k \in 1..MAX_AUDIO_BUFFER_FRAMES : utterances[1].frames[k].id = k
    /\ IsReset

\* C12: after every process_chunk call the buffer holds at most
\* MAX_AUDIO_BUFFER_FRAMES frames and no returned utterance is longer than
\* that, whether the frame that reaches the limit is speech or silence.
C12_BufferAndUtteranceWithinCap ==
    /\ Len(speech_frames) <= MAX_AUDIO_BUFFER_FRAMES
    /\ \A k \in 1..Len(utterances) :
           Len(utterances[k].frames) <= MAX_AUDIO_BUFFER_FRAMES

\* C13: a step that changes the silence threshold (set_mode) changes nothing
\* else of the segmenter and returns no utterance; and a silence frame fed
\* while speech is confirmed ends the utterance exactly when the run counted
\* so far plus this frame reaches the threshold current at that frame,
\* whatever the threshold was while the run was counted.
C13_SetModeOnlySwapsThreshold ==
    [][/\ min_silence_frames' # min_silence_frames
          => UNCHANGED <<speech_frames, speech_started, silence_frames,
                         utterances, reset_states_calls, nframes>>
       /\ (nframes' = nframes + 1 /\ speech_started) =>
             LET fed == IF utterances' # utterances
                        THEN utterances'[Len(utterances')].frames
                        ELSE speech_frames'
             IN  ~fed[Len(fed)].speech =>
                   IF silence_frames + 1 >= min_silence_frames
                   THEN /\ Len(utterances') = Len(utterances) + 1
                        /\ fed = Append(speech_frames, fed[Len(fed)])
                        /\ speech_frames' = << >>
                   ELSE /\ utterances' = utterances
                        /\ silence_frames' = silence_frames + 1
                        /\ speech_started'
      ]_vars

\* a silence run counted under the longer threshold has reached the shorter
\* one that set_mode has just made current
C13_Witness ==
    /\ speech_started
    /\ silence_frames > 0
    /\ silence_frames >= min_silence_frames

\* C14: every reset signals the classifier exactly once (reset_states) and
\* leaves the buffer empty, speech unconfirmed and the silence run 0; every
\* returned utterance (silence end, buffer limit, forced end of a non-empty
\* buffer) comes with exactly one reset.
C14_ResetClearsAndSignalsOnce ==
    [][/\ reset_states_calls' # reset_states_calls
          => reset_states_calls' = reset_states_calls + 1 /\ IsReset'
       /\ utterances' # utterances
          => /\ Len(utterances') = Len(utterances) + 1
             /\ reset_states_calls' = reset_states_calls + 1
             /\ IsReset'
      ]_vars

\* a reset from outside, a silence-ended and a forced utterance have happened
C14_Witness ==
    /\ reset_states_calls = Len(utterances) + 1
    /\ \E k \in 1..Len(utterances) : utterances[k].via = "silence"
    /\ \E k \in 1..Len(utterances) : utterances[k].via = "force"
    /\ IsReset

Increasing(fs) == \A a, b \in 1..Len(fs) : a < b => fs[a].id < fs[b].id

\* C15: every frame is in at most one returned utterance and utterances hold
\* their frames in arrival order: frame numbers increase within an utterance,
\* from one utterance to the next and from the utterances to the buffer, so
\* no returned frame is still buffered; one call returns at most one
\* utterance and leaves the buffer empty when it does.
C15_FramesEmittedOnceInOrder ==
    /\ [](/\ \A k \in 1..Len(utterances) :
                /\ utterances[k].frames # << >>
                /\ Increasing(utterances[k].frames)
                /\ LastId(utterances[k].frames) <= nframes
                /\ \A j \in 1..(k - 1) :
                       LastId(utterances[j].frames) < utterances[k].frames[1].id
                /\ speech_frames # << >> =>
                       LastId(utterances[k].frames) < speech_frames[1].id
           /\ Increasing(speech_frames))
    /\ [][utterances' # utterances =>
              /\ Len(utterances') = Len(utterances) + 1
              /\ speech_frames' = << >>]_vars

\* two utterances were returned one after the other and frames of a third
\* run are buffered
C15_Witness ==
    /\ Len(utterances) >= 2
    /\ utterances[1].via = "silence"
    /\ speech_frames # << >>

\* number of silence frames at the end of fs
TrailingSilence(fs) ==
    Cardinality({k \in 1..Len(fs) : \A j \in k..Len(fs) : ~fs[j].speech})

\* a frame is fed while speech is confirmed and the silence run is below the
\* threshold, as it always is while the mode is not switched
ConfirmedStep ==
    /\ nframes' = nframes + 1
    /\ speech_started
    /\ silence_frames < min_silence_frames

\* the buffer with the frame fed by this step, and that frame
FedBuffer ==
    IF utterances' # utterances
    THEN utterances'[Len(utterances')].frames ELSE speech_frames'

FedFrame == FedBuffer[Len(FedBuffer)]

\* a silence frame in confirmed state: appended, the run counted, and the
\* utterance returned exactly when the run equals the threshold
SilenceFrameStep ==
    IF silence_frames + 1 = min_silence_frames
    THEN /\ Len(utterances') = Len(utterances) + 1
         /\ FedBuffer = Append(speech_frames, FedFrame)
         /\ TrailingSilence(FedBuffer) = min_silence_frames
         /\ IsReset'
    ELSE /\ utterances' = utterances
         /\ speech_frames' = Append(speech_frames, FedFrame)
         /\ silence_frames' = silence_frames + 1

\* C25 as stated: in confirmed state a silence frame is appended and counted
\* and ends the utterance exactly when the run equals the threshold, the
\* utterance then ending with that many silence frames and the segmenter
\* being reset; a speech frame resets the run to 0 and returns no utterance.
C25_SpeechFrameNeverEmits ==
    [][ConfirmedStep =>
          IF FedFrame.speech
          THEN silence_frames' = 0 /\ utterances' = utterances
          ELSE SilenceFrameStep]_vars

\* C25 as amended: the same, but a speech frame returns the utterance when
\* it brings the buffer to MAX_AUDIO_BUFFER_FRAMES frames, and only then.
C25_SpeechFrameEmitsOnlyAtLimit ==
    [][ConfirmedStep =>
          IF FedFrame.speech
          THEN /\ silence_frames' = 0
               /\ utterances' # utterances
                     <=> Len(speech_frames) + 1 >= MAX_AUDIO_BUFFER_FRAMES
               /\ utterances' = utterances
                     => speech_frames' = Append(speech_frames, FedFrame)
          ELSE SilenceFrameStep]_vars

\* an utterance whose silence run was reset by a speech frame has ended on
\* the silence frame that completed a run of the threshold's length
C25_Witness ==
    \E k \in 1..Len(utterances) :
        LET fs == utterances[k].frames IN
        /\ utterances[k].via = "silence"
        /\ TrailingSilence(fs) = min_silence_frames
        /\ \E j \in 1..(Len(fs) - 1) : ~fs[j].speech /\ fs[j + 1].speech

\* the first min_speech_frames frames of fs are speech frames that were fed
\* one right after the other
SustainedOnset(fs) ==
    /\ Len(fs) >= min_speech_frames
    /\ \A j \in 1..min_speech_frames :
           /\ fs[j].speech
           /\ j > 1 => fs[j].id = fs[j - 1].id + 1

\* C26: speech is confirmed only after min_speech_frames consecutive speech
\* frames: while speech is confirmed the buffer starts with that many speech
\* frames fed one right after the other, with no silence frame between them.
C26_ConfirmedByConsecutiveSpeech ==
    speech_started => SustainedOnset(speech_frames)

\* C31: while speech is not confirmed the buffer holds fewer than
\* min_speech_frames frames, all of them speech frames, so the pre-speech
\* discard is never taken; and a silence frame fed while speech is not
\* confirmed leaves the buffered frames as they are.
C31_UnconfirmedBufferShortAndKept ==
    /\ [](~speech_started =>
             /\ Len(speech_frames) < min_speech_frames
             /\ AllSpeech(speech_frames)
             /\ ~(Len(speech_frames) > min_speech_frames))
    /\ [][(/\ nframes' = nframes + 1
           /\ ~speech_started
           /\ ~speech_started'
           /\ utterances' = utterances
           /\ Len(speech_frames') <= Len(speech_frames))
          => speech_frames' = speech_frames]_vars

\* a silence frame was fed after a speech frame that is still buffered, and
\* speech is not confirmed
C31_Witness ==
    /\ ~speech_started
    /\ speech_frames # << >>
    /\ LastId(speech_frames) < nframes

(***************************************************************************)
(* WhisperTranscriber.  An audio array is the range [first..last] of the   *)
(* sample numbers it holds (first > last: no samples).  A transcribe call  *)
(* is a record of trs: its argument, its position, the files it stages     *)
(* (tmp_wav_path, tmp_out_base, tmp_out_base + ".txt"), the whisper-cli    *)
(* process it starts, what it printed and what it returned.                *)
(***************************************************************************)
AudioOf(n) == [first |-> 1, last |-> n]

AudioLen(a) == IF a.last >= a.first THEN a.last - a.first + 1 ELSE 0

\* a slice that keeps the last n samples
Slice_Tail(a, n) ==
    [first |-> IF a.last - n + 1 > a.first THEN a.last - n + 1 ELSE a.first,
     last |-> a.last]

\* audio[:n]
Slice(a, n) ==
    [first |-> a.first,
     last |-> IF a.first + n - 1 < a.last THEN a.first + n - 1 ELSE a.last]

\* a minimum-duration test that also rejects exactly 0.3 s
TooShort_Inclusive(a) == AudioLen(a) * 10 <= 3 * SAMPLE_RATE

\* duration_s < 0.3 with duration_s = len(audio) / SAMPLE_RATE
TooShort(a) == AudioLen(a) * 10 < 3 * SAMPLE_RATE

\* duration_s > MAX_RECORDING_DURATION_S
TooLong(a) == AudioLen(a) > MAX_RECORDING_DURATION_S * SAMPLE_RATE

\* the audio after the truncation step
Truncated(a) ==
    IF TooLong(a) THEN Slice(a, MAX_RECORDING_DURATION_S * SAMPLE_RATE) ELSE a

\* the lengths of the audio arrays passed to transcribe: around the minimum
\* and the maximum duration
AudioLens ==
    {0, (3 * SAMPLE_RATE) \div 10 - 1, (3 * SAMPLE_RATE) \div 10,
     (3 * SAMPLE_RATE) \div 10 + 1,
     MAX_RECORDING_DURATION_S * SAMPLE_RATE - 1,
     MAX_RECORDING_DURATION_S * SAMPLE_RATE,
     MAX_RECORDING_DURATION_S * SAMPLE_RATE + 1,
     MAX_RECORDING_DURATION_S * SAMPLE_RATE + 512}

\* what staging the files runs into: nothing, NamedTemporaryFile failing for
\* the WAV, wave.open / writeframes failing, NamedTemporaryFile failing for
\* the output base
Stagings == {"ok", "wav_create_fails", "wav_write_fails", "out_create_fails"}

\* what whisper-cli writes to the output text file
Contents == {<< >>, <<" ", "\n">>, <<"g", "o", "\n">>}

\* what whisper-cli writes to stdout
Stdouts == {<< >>, <<"g", "o", "\n">>,
            <<"[", "0", "]", " ", "g", "o", "\n", "[", "1", "]", "\n">>}

\* str.split('\n')
RECURSIVE SplitLinesFrom(_, _)
SplitLinesFrom(s, i) ==
    LET n == RunLen(s, i, {s[k] : k \in 1..Len(s)} \ {"\n"}) IN
    IF i + n > Len(s) THEN <<SubSeq(s, i, Len(s))>>
    ELSE <<SubSeq(s, i, i + n - 1)>> \o SplitLinesFrom(s, i + n + 1)

\* ' '.join(parts)
RECURSIVE Join(_)
Join(parts) ==
    IF parts = << >> THEN << >>
    ELSE IF Len(parts) = 1 THEN parts[1]
    ELSE parts[1] \o <<" ">> \o Join(Tail(parts))

\* one line of _parse_stdout: stripped, its "[...]" prefix removed
ParseLine(line) ==
    LET l == Strip(line) IN
    IF l # << >> /\ l[1] = "[" /\ \E k \in 1..Len(l) : l[k] = "]"
    THEN Strip(SubSeq(l, 1 + (CHOOSE k \in 1..Len(l) :
                        l[k] = "]" /\ \A j \in 1..(k - 1) : l[j] # "]"),
                      Len(l)))
    ELSE l

\* _parse_stdout; << >> stands for None
parse_stdout(output) ==
    LET lines == SplitLinesFrom(Strip(output), 1)
        parsed == [k \in 1..Len(lines) |-> ParseLine(lines[k])]
    IN  Strip(Join(SelectSeq(parsed, LAMBDA l : l # << >>)))

\* the exceptions the steps of a call raise; all are subclasses of Exception
Exceptions == {"TimeoutError", "FileNotFoundError", "OSError"}

\* except Exception that lets everything but a timeout through
Caught_OnlyTimeout(e) == e = "TimeoutError"

\* except Exception
Caught(e) == e \in Exceptions

\* transcribe after its argument checks, before the try
NewTranscribe(a, active) ==
    [audio |-> a, active |-> active, pc |-> "started",
     tmp_wav |-> FALSE, tmp_out |-> FALSE,
     wav |-> "absent", wavdata |-> AudioOf(0),
     out_base |-> "absent", out_txt |-> "absent", content |-> << >>,
     invoked |-> FALSE, proc |-> "none", given |-> AudioOf(0),
     wrote |-> FALSE, returncode |-> 0,
     result |-> << >>, raised |-> FALSE, reports |-> << >>]

Report(t, what) == [t EXCEPT !.reports = Append(t.reports, what)]

\* the finally block of transcribe: unlink the three paths
Cleanup(t) ==
    [t EXCEPT !.wav = IF t.tmp_wav THEN "absent" ELSE t.wav,
              !.out_base = IF t.tmp_out THEN "absent" ELSE t.out_base,
              !.out_txt = IF t.tmp_out THEN "absent" ELSE t.out_txt]

\* transcribe returns result (<< >>: None) through its finally block
Returns(t, result) ==
    [Cleanup(t) EXCEPT !.pc = "returned", !.result = result]

\* exception e raised inside the try of transcribe: the except clause, then
\* the finally block
RaisedInTranscribe(t, e) ==
    IF Caught(e) THEN Returns(Report(t, "exception"), << >>)
    ELSE [Cleanup(t) EXCEPT !.pc = "returned", !.raised = TRUE]

\* exception e raised inside the try of _run_whisper
RaisedInRunWhisper(t, e) ==
    IF e = "TimeoutError" THEN Returns(Report(t, "timeout"), << >>)
    ELSE IF Caught(e) THEN Returns(Report(t, "exception"), << >>)
    ELSE RaisedInTranscribe(t, e)

\* transcribe from its start to the await of create_subprocess_exec
TranscribeBegin(n, active, staging) ==
    LET a == AudioOf(n)
        t0 == NewTranscribe(a, active)
        t1 == IF TooLong(a) THEN Report(t0, "truncating") ELSE t0
        withWav == [t1 EXCEPT !.tmp_wav = TRUE, !.wav = "present"]
        written == [withWav EXCEPT !.wavdata = Truncated(a)]
        t == IF TooShort(a)
             THEN [Report(t0, "too_short") EXCEPT !.pc = "returned"]
             ELSE IF staging = "wav_create_fails"
             THEN RaisedInTranscribe(t1, "OSError")
             ELSE IF staging = "wav_write_fails"
             THEN RaisedInTranscribe(withWav, "OSError")
             ELSE IF staging = "out_create_fails"
             THEN RaisedInTranscribe(written, "OSError")
             ELSE [written EXCEPT !.tmp_out = TRUE, !.out_base = "present",
                                  !.invoked = TRUE, !.pc = "starting"]
    IN  /\ Len(trs) < MaxTranscribes
        /\ trs' = Append(trs, t)
        /\ UNCHANGED <<smVars, vadVars, chunks, wsVars, wkVars>>

\* _run_whisper: create_subprocess_exec returns the process, or raises when
\* the binary cannot be started
ExecReturns(c, ok) ==
    /\ trs[c].pc = "starting"
    /\ trs' = [trs EXCEPT ![c] =
           IF ok THEN [trs[c] EXCEPT !.proc = "running",
                                     !.given = trs[c].wavdata,
                                     !.pc = "communicating"]
           ELSE RaisedInRunWhisper(trs[c], "FileNotFoundError")]
    /\ UNCHANGED <<smVars, vadVars, chunks, wsVars, wkVars>>

\* the whisper-cli process writes its output text file
EngineWrites(c, content) ==
    /\ trs[c].proc = "running"
    /\ ~trs[c].wrote
    /\ trs' = [trs EXCEPT ![c].out_txt = "present", ![c].content = content,
                          ![c].wrote = TRUE]
    /\ UNCHANGED <<smVars, vadVars, chunks, wsVars, wkVars>>

\* the whisper-cli process exits
EngineExits(c, code) ==
    /\ trs[c].proc = "running"
    /\ trs' = [trs EXCEPT ![c].proc = "exited", ![c].returncode = code]
    /\ UNCHANGED <<smVars, vadVars, chunks, wsVars, wkVars>>

\* _run_whisper: communicate() returns within the 15 s
CommunicateReturns(c, stdout) ==
    LET t == trs[c]
        text == Strip(t.content)
    IN  /\ t.pc = "communicating"
        /\ t.proc = "exited"
        /\ trs' = [trs EXCEPT ![c] =
               IF t.returncode # 0 THEN Returns(Report(t, "exit_code"), << >>)
               ELSE IF t.out_txt = "absent"
               THEN Returns(Report(t, "no_output_file"), parse_stdout(stdout))
               ELSE IF text # << >> THEN Returns(t, text)
               ELSE Returns(Report(t, "empty"), << >>)]
        /\ UNCHANGED <<smVars, vadVars, chunks, wsVars, wkVars>>

\* _run_whisper: wait_for gives up after 15 s; communicate() is cancelled,
\* the process is left as it is
CommunicateTimesOut(c) ==
    /\ trs[c].pc = "communicating"
    /\ trs[c].proc = "running"
    /\ trs' = [trs EXCEPT ![c] = RaisedInRunWhisper(trs[c], "TimeoutError")]
    /\ UNCHANGED <<smVars, vadVars, chunks, wsVars, wkVars>>

\* The transcriber under every audio length, staging outcome and engine
\* behaviour.
NextTranscriber ==
    \/ \E n \in AudioLens : \E active \in BOOLEAN : \E staging \in Stagings :
           TranscribeBegin(n, active, staging)
    \/ \E c \in 1..Len(trs) : \E ok \in BOOLEAN : ExecReturns(c, ok)
    \/ \E c \in 1..Len(trs) : \E content \in Contents : EngineWrites(c, content)
    \/ \E c \in 1..Len(trs) : \E code \in {0, 1} : EngineExits(c, code)
    \/ \E c \in 1..Len(trs) : \E stdout \in Stdouts : CommunicateReturns(c, stdout)
    \/ \E c \in 1..Len(trs) : CommunicateTimesOut(c)

SpecTranscriber == Init /\ [][NextTranscriber]_vars

Returned_(c) == trs[c].pc = "returned"

Reported(c, what) == \E k \in 1..Len(trs[c].reports) : trs[c].reports[k] = what

ErrorReports(c) ==
    Cardinality({k \in 1..Len(trs[c].reports) :
                    trs[c].reports[k] \in {"timeout", "exception"}})

\* the engine failed: it ran into the timeout, could not be started, exited
\* non-zero, or wrote an output file with no text in it
EngineFailed(c) ==
    \/ Reported(c, "timeout")
    \/ trs[c].invoked /\ trs[c].proc = "none"
    \/ trs[c].proc = "exited" /\ trs[c].returncode # 0
    \/ trs[c].wrote /\ Strip(trs[c].content) = << >>

\* C16: a transcribe call whose engine failed (timeout, non-zero exit, not
\* startable, empty output) returns None, and no call raises to its caller;
\* after a timeout exactly one error has been reported.
C16_EngineFailureIsNoResult ==
    \A c \in 1..Len(trs) :
        Returned_(c) =>
            /\ ~trs[c].raised
            /\ EngineFailed(c) => trs[c].result = << >>
            /\ Reported(c, "timeout") => ErrorReports(c) = 1

\* a call has returned from an engine timeout
C16_Witness ==
    \E c \in 1..Len(trs) :
        /\ Returned_(c)
        /\ Reported(c, "timeout")
        /\ trs[c].result = << >>

\* C17: after transcribe has returned, on every exit path, neither the
\* staged WAV file nor the output base file nor the output text file exists,
\* and no whisper-cli process the call started is running.
C17_NoResourceLeftAfterReturn ==
    \A c \in 1..Len(trs) :
        Returned_(c) =>
            /\ trs[c].wav = "absent"
            /\ trs[c].out_base = "absent"
            /\ trs[c].out_txt = "absent"
            /\ trs[c].proc # "running"

\* C18: audio of fewer than 0.3 s of samples returns None with no engine
\* invocation and no staging file; audio of exactly 0.3 s is not rejected:
\* unless staging a file fails, the engine is invoked on it.
C18_ShortAudioNeverDispatched ==
    \A c \in 1..Len(trs) :
        /\ 10 * AudioLen(trs[c].audio) < 3 * SAMPLE_RATE =>
              /\ Returned_(c)
              /\ trs[c].result = << >>
              /\ ~trs[c].invoked /\ trs[c].proc = "none"
              /\ ~trs[c].tmp_wav /\ ~trs[c].tmp_out
              /\ trs[c].wav = "absent" /\ trs[c].out_base = "absent"
        /\ 10 * AudioLen(trs[c].audio) = 3 * SAMPLE_RATE =>
              /\ ~Reported(c, "too_short")
              /\ trs[c].invoked \/ Reported(c, "exception")

\* the longest audio below the minimum was passed and nothing was started
C18_Witness ==
    \E c \in 1..Len(trs) :
        /\ 10 * (AudioLen(trs[c].audio) + 1) = 3 * SAMPLE_RATE
        /\ Returned_(c)
        /\ ~trs[c].invoked

\* the first MAX_RECORDING_DURATION_S * SAMPLE_RATE samples of audio a, all
\* of a when it is not longer
FirstMaxDuration(a) ==
    IF AudioLen(a) > MAX_RECORDING_DURATION_S * SAMPLE_RATE
    THEN [first |-> a.first,
          last |-> a.first + MAX_RECORDING_DURATION_S * SAMPLE_RATE - 1]
    ELSE a

\* C19: the audio the engine is invoked on is exactly the first
\* MAX_RECORDING_DURATION_S * SAMPLE_RATE samples of an audio longer than
\* that, and the whole audio otherwise.
C19_TruncatedToMaxDuration ==
    \A c \in 1..Len(trs) :
        /\ trs[c].invoked => trs[c].wavdata = FirstMaxDuration(trs[c].audio)
        /\ trs[c].proc # "none" => trs[c].given = FirstMaxDuration(trs[c].audio)

\* the engine runs on the truncation of an audio longer than the maximum
C19_Witness ==
    \E c \in 1..Len(trs) :
        /\ AudioLen(trs[c].audio) > MAX_RECORDING_DURATION_S * SAMPLE_RATE
        /\ trs[c].proc = "running"
        /\ AudioLen(trs[c].given) = MAX_RECORDING_DURATION_S * SAMPLE_RATE
        /\ trs[c].given.first = trs[c].audio.first

(***************************************************************************)
(* VoiceServer: the audio pipeline while the server runs (running is True  *)
(* and the loop is set).  The sounddevice thread calls audio_callback for  *)
(* each frame; it schedules one process_audio_chunk coroutine per frame on *)
(* the event loop with run_coroutine_threadsafe.  The loop starts them in  *)
(* the order they were scheduled.                                          *)
(***************************************************************************)
\* audio_callback
AudioCallback(speech) ==
    /\ Len(chunks) < MaxAudio
    /\ chunks' = Append(chunks,
           [frame |-> [id |-> Len(chunks) + 1, speech |-> speech],
            pc |-> "scheduled", utterance |-> << >>, call |-> 0,
            active |-> FALSE, at |-> "none"])
    /\ UNCHANGED <<smVars, vadVars, trVars, wsVars, wkVars>>

\* transcribe(audio, active=False): the tier argument when the caller gives
\* none, as process_audio_chunk does
TranscribeDefaultActive == FALSE

\* model_path: the tier transcribe runs for its active argument
ModelTier(active) == IF active THEN "active" ELSE "passive"

\* process_audio_chunk from its start to its first await: vad.process_chunk,
\* and with an utterance the call of transcriber.transcribe
ChunkRuns(c) ==
    LET r == process_chunk(Vad, chunks[c].frame) IN
    /\ chunks[c].pc = "scheduled"
    /\ \A b \in 1..(c - 1) : chunks[b].pc # "scheduled"
    /\ nframes' = nframes + 1
    /\ SetVad(r.vad)
    /\ utterances' = Returned(r)
    /\ chunks' = [chunks EXCEPT
           ![c].pc = IF r.utterance = << >> THEN "done" ELSE "transcribing",
           ![c].utterance = r.utterance,
           ![c].active = TranscribeDefaultActive,
           ![c].at = IF r.utterance = << >> THEN "none" ELSE state]
    /\ UNCHANGED <<smVars, trVars, wsVars, wkVars>>

\* process_audio_chunk: transcribe returns text (<< >>: None, no result);
\* with a text, state_machine.process_transcription(text) is called and
\* awaited
TranscribeReturns(c, text) ==
    /\ chunks[c].pc = "transcribing"
    /\ IF text = << >>
       THEN /\ chunks' = [chunks EXCEPT ![c].pc = "done"]
            /\ UNCHANGED smVars
       ELSE /\ ProcessTranscriptionBegin(text)
            /\ chunks' = [chunks EXCEPT ![c].pc = "handling",
                                        ![c].call = Len(tasks) + 1]
    /\ UNCHANGED <<vadVars, trVars, wsVars, wkVars>>

\* an utterance of chunk c is in flight: it was returned by process_chunk and
\* its transcription or its process_transcription has not finished
InFlight(c) ==
    \/ chunks[c].pc = "transcribing"
    \/ chunks[c].pc = "handling" /\ tasks[chunks[c].call].pc # "done"

\* The running server: audio frames, recognition results, the client's
\* start_listening and stop_listening messages, callbacks and timers.
NextServer ==
    \/ \E speech \in BOOLEAN : AudioCallback(speech)
    \/ \E c \in 1..Len(chunks) : ChunkRuns(c)
    \/ \E c \in 1..Len(chunks) : \E text \in Texts : TranscribeReturns(c, text)
    \/ ManualTrigger /\ UNCHANGED <<vadVars, srvVars>>
    \/ Stop /\ UNCHANGED <<vadVars, srvVars>>
    \/ \E i \in 1..Len(tasks) : OnWakeReturns(i) /\ UNCHANGED <<vadVars, srvVars>>
    \/ \E i \in 1..Len(tasks) : OnListeningReturns(i) /\ UNCHANGED <<vadVars, srvVars>>
    \/ \E i \in 1..Len(tasks) : OnCommandReturns(i) /\ UNCHANGED <<vadVars, srvVars>>
    \/ \E t \in 1..Len(timers) : TimerFires(t) /\ UNCHANGED <<vadVars, srvVars>>
    \/ \E t \in 1..Len(timers) : OnErrorReturns(t) /\ UNCHANGED <<vadVars, srvVars>>

SpecServer == Init /\ [][NextServer]_vars

\* C8: the segmenter's silence threshold matches the conversation state: the
\* Active threshold exactly when the state is Active, the Passive threshold
\* exactly when it is Passive.
C8_ThresholdMatchesState ==
    /\ state = "active" <=> min_silence_frames = active_silence_frames
    /\ state = "passive" <=> min_silence_frames = passive_silence_frames

\* C9: while an utterance is in flight (its transcription or its handling by
\* the state machine has not finished) no frame is classified: no
\* process_chunk call runs.
C9_NoClassificationWhileInFlight ==
    [][(\E c \in 1..Len(chunks) : InFlight(c)) => nframes' = nframes]_vars

(***************************************************************************)
(* VoiceServer: the WebSocket peer.  websockets runs one websocket_handler *)
(* coroutine per accepted connection.  A connection is closed once close() *)
(* was called on it or its peer went away.                                 *)
(***************************************************************************)
NewConn(pc, prior, got) ==
    [pc |-> pc, prior |-> prior, closed |-> FALSE, code |-> 0, got |-> got,
     call |-> 0, stale |-> FALSE]

\* websocket.close(1000, ...) on connection k
Closed(cs, k) ==
    IF cs[k].closed THEN cs
    ELSE [cs EXCEPT ![k].closed = TRUE, ![k].code = 1000]

\* send_message called n times in a row with connections cs and
\* self.websocket ws: [conns, websocket] after it
RECURSIVE send_message(_, _, _)
send_message(cs, ws, n) ==
    IF n = 0 \/ ws = 0 THEN [conns |-> cs, websocket |-> ws]
    ELSE IF cs[ws].closed THEN send_message(cs, 0, n - 1)
    ELSE send_message([cs EXCEPT ![ws].got = @ + 1], ws, n - 1)

\* websocket_handler of connection k is inside handle_client_message
Handling(k) ==
    conns[k].call # 0 /\ tasks[conns[k].call].pc # "done"

\* a connection arrives: websocket_handler up to its first await
WsConnect ==
    LET k == Len(conns) + 1 IN
    /\ Len(conns) < MaxConns
    /\ IF websocket # 0
       THEN /\ conns' = Append(Closed(conns, websocket),
                               NewConn("closing", websocket, 0))
            /\ UNCHANGED websocket
       ELSE /\ conns' = Append(conns, NewConn("loop", 0, 1))
            /\ websocket' = k
    /\ UNCHANGED <<smVars, vadVars, chunks, trVars, wkVars>>

\* websocket_handler: close() of the prior connection returns; the handler
\* takes over self.websocket and sends the status message
WsCloseReturns(k) ==
    LET r == send_message([conns EXCEPT ![k].pc = "loop"], k, 1) IN
    /\ conns[k].pc = "closing"
    /\ conns' = r.conns
    /\ websocket' = r.websocket
    /\ UNCHANGED <<smVars, vadVars, chunks, trVars, wkVars>>

\* websocket_handler: a control message of connection k arrives in its
\* receive loop: handle_client_message up to its first await
WsMessage(k, type) ==
    LET cs == [conns EXCEPT ![k].call = Len(tasks) + 1,
                            ![k].stale = @ \/ websocket # k]
        r  == send_message(cs, websocket, Len(events') - Len(events))
    IN  /\ Len(tasks) < MaxMessages
        /\ conns[k].pc = "loop"
        /\ ~conns[k].closed
        /\ ~Handling(k)
        /\ IF type = "start_listening" THEN ManualTrigger ELSE Stop
        /\ conns' = r.conns
        /\ websocket' = r.websocket
        /\ UNCHANGED <<vadVars, chunks, trVars, wkVars>>

\* the peer of connection k goes away
WsPeerCloses(k) ==
    /\ ~conns[k].closed
    /\ conns' = [conns EXCEPT ![k].closed = TRUE, ![k].code = 1001]
    /\ UNCHANGED <<smVars, vadVars, chunks, trVars, websocket, wkVars>>

\* websocket_handler: the receive loop of a closed connection ends; finally
WsHandlerEnds(k) ==
    /\ conns[k].pc = "loop"
    /\ conns[k].closed
    /\ ~Handling(k)
    /\ conns' = [conns EXCEPT ![k].pc = "done"]
    /\ websocket' = IF websocket = k THEN 0 ELSE websocket
    /\ UNCHANGED <<smVars, vadVars, chunks, trVars, wkVars>>

\* the callbacks of a state machine step send its events to self.websocket
SendsEvents ==
    LET r == send_message(conns, websocket, Len(events') - Len(events)) IN
    /\ conns' = r.conns
    /\ websocket' = r.websocket
    /\ UNCHANGED <<vadVars, chunks, trVars, wkVars>>

\* The server and its peers: connections arrive and go away, their control
\* messages drive the state machine, whose events are sent to self.websocket.
NextWs ==
    \/ WsConnect
    \/ \E k \in 1..Len(conns) : WsCloseReturns(k)
    \/ \E k \in 1..Len(conns) :
          \E type \in {"start_listening", "stop_listening"} : WsMessage(k, type)
    \/ \E k \in 1..Len(conns) : WsPeerCloses(k)
    \/ \E k \in 1..Len(conns) : WsHandlerEnds(k)
    \/ \E i \in 1..Len(tasks) : OnWakeReturns(i) /\ SendsEvents
    \/ \E i \in 1..Len(tasks) : OnListeningReturns(i) /\ SendsEvents
    \/ \E t \in 1..Len(timers) : TimerFires(t) /\ SendsEvents
    \/ \E t \in 1..Len(timers) : OnErrorReturns(t) /\ SendsEvents

SpecWs == Init /\ [][NextWs]_vars

\* connection k is served: it is open and its handler is in its receive loop
Served(k) == conns[k].pc = "loop" /\ ~conns[k].closed

\* C20: at most one connection is served at a time and it is the one
\* self.websocket names; a handler that has taken over has closed the prior
\* connection with code 1000; no control message of a connection is acted on
\* while another connection has taken self.websocket.
C20_AtMostOnePeerServed ==
    /\ Cardinality({k \in 1..Len(conns) : Served(k)}) <= 1
    /\ \A k \in 1..Len(conns) :
          /\ Served(k) => websocket = k
          /\ conns[k].prior # 0 =>
                conns[conns[k].prior].closed /\ conns[conns[k].prior].code # 0
          /\ ~conns[k].stale

\* C21: an utterance handed to transcribe while the state is Active is run
\* with the Active tier, one handed over while Passive with the Passive tier.
C21_TierMatchesState ==
    \A c \in 1..Len(chunks) :
        chunks[c].at # "none" => ModelTier(chunks[c].active) = chunks[c].at

\* the recognition of the utterance of chunk c gave no result: transcribe
\* returned None (engine timeout or failure) and the coroutine has ended
NoResult(c) ==
    /\ chunks[c].utterance # << >>
    /\ chunks[c].pc = "done"
    /\ chunks[c].call = 0

ChunkTask(c) == <<"chunk", c>>

\* C22: for every utterance whose recognition timed out or failed exactly
\* one Error event was sent for that utterance.
C22_FailedRecognitionSendsError ==
    \A c \in 1..Len(chunks) :
        NoResult(c) =>
            Cardinality({k \in 1..Len(events) :
                            /\ events[k].type = "error"
                            /\ events[k].by = ChunkTask(c)}) = 1

\* frame c was handed off by audio_callback and its process_audio_chunk
\* coroutine has not finished
HandedOff(c) == chunks[c].pc = "scheduled" \/ InFlight(c)

\* C27: the number of frames handed off and not yet fully processed stays
\* within a fixed bound however many frames are produced: it stays below the
\* number of frames MaxAudio that the producer delivers.
C27_HandOffBounded ==
    Cardinality({c \in 1..Len(chunks) : HandedOff(c)}) < MaxAudio

(***************************************************************************)
(* The audio pipeline alone, with no client message: frames, recognition   *)
(* results, callbacks and timers, for long enough to hold two utterances.  *)
(***************************************************************************)
MaxPipelineAudio == 8

\* audio_callback, for the frames of two utterances
PipelineAudioCallback(speech) ==
    /\ Len(chunks) < MaxPipelineAudio
    /\ chunks' = Append(chunks,
           [frame |-> [id |-> Len(chunks) + 1, speech |-> speech],
            pc |-> "scheduled", utterance |-> << >>, call |-> 0,
            active |-> FALSE, at |-> "none"])
    /\ UNCHANGED <<smVars, vadVars, trVars, wsVars, wkVars>>

NextPipeline ==
    \/ \E speech \in BOOLEAN : PipelineAudioCallback(speech)
    \/ \E c \in 1..Len(chunks) : ChunkRuns(c)
    \/ \E c \in 1..Len(chunks) : \E text \in Texts : TranscribeReturns(c, text)
    \/ \E i \in 1..Len(tasks) : OnWakeReturns(i) /\ UNCHANGED <<vadVars, srvVars>>
    \/ \E i \in 1..Len(tasks) : OnListeningReturns(i) /\ UNCHANGED <<vadVars, srvVars>>
    \/ \E i \in 1..Len(tasks) : OnCommandReturns(i) /\ UNCHANGED <<vadVars, srvVars>>
    \/ \E t \in 1..Len(timers) : TimerFires(t) /\ UNCHANGED <<vadVars, srvVars>>
    \/ \E t \in 1..Len(timers) : OnErrorReturns(t) /\ UNCHANGED <<vadVars, srvVars>>

SpecPipeline == Init /\ [][NextPipeline]_vars

\* the chunks whose utterance was recognized: process_transcription was
\* started for its text
Recognized == {c \in 1..Len(chunks) : chunks[c].call # 0}

\* C30: recognized texts reach the state machine in the order in which the
\* segmenter returned their utterances: of two utterances the one returned
\* first has its process_transcription call started first.
C30_TextsInEmissionOrder ==
    \A a, b \in Recognized : a < b => chunks[a].call < chunks[b].call

====
